---- MODULE Spec2Model ----
(***************************************************************************)
(* UnifiedImageReader: region addressing and validation (ImageReader),     *)
(* the directory reader (ImageReaderDirectory), the adaptive reader        *)
(* (ImageReaderAdaptive) and the Image facade.                             *)
(*                                                                         *)
(* Python values are modelled as follows.  A file path is a sequence of    *)
(* one-character strings, so that split('.') and sorting are computed.     *)
(* A region identifier is a record [t, v]: t is the Python type ("int",    *)
(* "float", "tuple", "str"), v a sequence of integers (an int n is <<n>>,  *)
(* a float is <<twice its value>>, a tuple of ints is its elements).       *)
(* The outcome of a call is a record with exc = "" for a normal return     *)
(* and the name of the exception class otherwise.                          *)
(***************************************************************************)
EXTENDS Integers, Sequences, FiniteSets, TLC

\* ------------------------------------------------------------------ bounds
\* largest image side of the small images used for the geometry checks
MaxDim == 4
\* number of file names a directory may hold
MaxFiles == 3
\* largest number of whole default-size tiles along one side of a slide
MaxTiles == 2
\* readers constructed during one run
MaxReaders == 2

VARIABLES
    imgW,      \* width reported by the backend for every image file
    imgH,      \* height reported by the backend for every image file
    listing,   \* os.listdir of the directory, in the order the OS returns it
    image,     \* the Image facade: filepath, _reader, _iter
    ureader,   \* a reader the caller constructed directly
    ret,       \* the last call: operation, arguments, outcome, effects
    served,    \* regions returned by __next__ since the last __iter__
    nextId,    \* identity given to the next reader object
    inp        \* the arguments of the geometry call under study

vars == <<imgW, imgH, listing, image, ureader, ret, served, nextId, inp>>

\* ---------------------------------------------------------- Python integers
\* floor division by a positive divisor
FloorPos(a, b) == IF a >= 0 THEN a \div b ELSE -(((-a) + b - 1) \div b)

\* Python a // b for b # 0 (rounds towards minus infinity)
PyFloorDiv(a, b) == IF b > 0 THEN FloorPos(a, b) ELSE FloorPos(-a, -b)

\* Python a % b for b # 0 (sign of the divisor)
PyMod(a, b) == a - b * PyFloorDiv(a, b)

\* ------------------------------------------------------------ call outcomes
None == "None"

NoRegion == [file |-> <<>>, coords |-> <<>>, dims |-> <<>>]

Ok(v) == [exc |-> "", val |-> v]

Raise(e) == [exc |-> e, val |-> <<>>]

\* -------------------------------------------------- ImageReader: geometry
\* ImageReader.number_of_regions rounding up, so that a remainder strip counts
number_of_regions_ceil(W, H, region_dims) ==
    IF Len(region_dims) # 2 THEN Raise("ValueError")
    ELSE LET width == region_dims[1]
             height == region_dims[2]
         IN IF width = 0 \/ height = 0 THEN Raise("ZeroDivisionError")
            ELSE Ok(<<(-PyFloorDiv(-W, width)) * (-PyFloorDiv(-H, height))>>)

\* ImageReader.number_of_regions with self.width = W, self.height = H
number_of_regions(W, H, region_dims) ==
    IF Len(region_dims) # 2 THEN Raise("ValueError")
    ELSE LET width == region_dims[1]
             height == region_dims[2]
         IN IF width = 0 \/ height = 0 THEN Raise("ZeroDivisionError")
            ELSE Ok(<<PyFloorDiv(W, width) * PyFloorDiv(H, height)>>)

\* region_index_to_coordinates with the tiles of a row counted along the
\* height
region_index_to_coordinates_swapped(W, H, region_index, region_dims) ==
    IF Len(region_dims) # 2 THEN Raise("ValueError")
    ELSE LET region_width == region_dims[1]
             region_height == region_dims[2]
         IN IF region_height = 0 THEN Raise("ZeroDivisionError")
            ELSE LET width_regions == PyFloorDiv(H, region_height)
                 IN IF width_regions = 0 THEN Raise("ZeroDivisionError")
                    ELSE Ok(<<PyMod(region_index, width_regions) * region_width,
                              PyFloorDiv(region_index, width_regions) * region_height>>)

\* region_index_to_coordinates taking the index as one-based
region_index_to_coordinates_one_based(W, H, region_index, region_dims) ==
    IF Len(region_dims) # 2 THEN Raise("ValueError")
    ELSE LET region_width == region_dims[1]
             region_height == region_dims[2]
         IN IF region_width = 0 THEN Raise("ZeroDivisionError")
            ELSE LET width_regions == PyFloorDiv(W, region_width)
                 IN IF width_regions = 0 THEN Raise("ZeroDivisionError")
                    ELSE Ok(<<PyMod(region_index + 1, width_regions) * region_width,
                              PyFloorDiv(region_index + 1, width_regions) * region_height>>)

\* ImageReader.region_index_to_coordinates
region_index_to_coordinates(W, H, region_index, region_dims) ==
    IF Len(region_dims) # 2 THEN Raise("ValueError")
    ELSE LET region_width == region_dims[1]
             region_height == region_dims[2]
         IN IF region_width = 0 THEN Raise("ZeroDivisionError")
            ELSE LET width_regions == PyFloorDiv(W, region_width)
                 IN IF width_regions = 0 THEN Raise("ZeroDivisionError")
                    ELSE Ok(<<PyMod(region_index, width_regions) * region_width,
                              PyFloorDiv(region_index, width_regions) * region_height>>)

\* validate_region refusing a region that ends on the right or bottom edge
validate_region_strict(W, H, region_coordinates, region_dims) ==
    IF Len(region_coordinates) # 2 THEN "InvalidCoordinatesException"
    ELSE LET left == region_coordinates[1]
             top == region_coordinates[2]
         IN IF ~(0 <= left /\ left < W) THEN "IndexError"
            ELSE IF ~(0 <= top /\ top < H) THEN "IndexError"
            ELSE IF Len(region_dims) # 2 THEN "InvalidDimensionsException"
            ELSE LET region_width == region_dims[1]
                     region_height == region_dims[2]
                 IN IF ~(0 < region_width /\ left + region_width < W)
                        THEN "IndexError"
                    ELSE IF ~(0 < region_height /\ top + region_height < H)
                        THEN "IndexError"
                    ELSE ""

\* validate_region without the test that the region height is positive
validate_region_any_height(W, H, region_coordinates, region_dims) ==
    IF Len(region_coordinates) # 2 THEN "InvalidCoordinatesException"
    ELSE LET left == region_coordinates[1]
             top == region_coordinates[2]
         IN IF ~(0 <= left /\ left < W) THEN "IndexError"
            ELSE IF ~(0 <= top /\ top < H) THEN "IndexError"
            ELSE IF Len(region_dims) # 2 THEN "InvalidDimensionsException"
            ELSE LET region_width == region_dims[1]
                     region_height == region_dims[2]
                 IN IF ~(0 < region_width /\ left + region_width <= W)
                        THEN "IndexError"
                    ELSE IF ~(top + region_height <= H)
                        THEN "IndexError"
                    ELSE ""

\* validate_region asking for at least two coordinates, not exactly two
validate_region_at_least_two(W, H, region_coordinates, region_dims) ==
    IF Len(region_coordinates) < 2 THEN "InvalidCoordinatesException"
    ELSE LET left == region_coordinates[1]
             top == region_coordinates[2]
         IN IF ~(0 <= left /\ left < W) THEN "IndexError"
            ELSE IF ~(0 <= top /\ top < H) THEN "IndexError"
            ELSE IF Len(region_dims) # 2 THEN "InvalidDimensionsException"
            ELSE LET region_width == region_dims[1]
                     region_height == region_dims[2]
                 IN IF ~(0 < region_width /\ left + region_width <= W)
                        THEN "IndexError"
                    ELSE IF ~(0 < region_height /\ top + region_height <= H)
                        THEN "IndexError"
                    ELSE ""

\* ImageReader.validate_region: "" when the region is accepted
validate_region(W, H, region_coordinates, region_dims) ==
    IF Len(region_coordinates) # 2 THEN "InvalidCoordinatesException"
    ELSE LET left == region_coordinates[1]
             top == region_coordinates[2]
         IN IF ~(0 <= left /\ left < W) THEN "IndexError"
            ELSE IF ~(0 <= top /\ top < H) THEN "IndexError"
            ELSE IF Len(region_dims) # 2 THEN "InvalidDimensionsException"
            ELSE LET region_width == region_dims[1]
                     region_height == region_dims[2]
                 IN IF ~(0 < region_width /\ left + region_width <= W)
                        THEN "IndexError"
                    ELSE IF ~(0 < region_height /\ top + region_height <= H)
                        THEN "IndexError"
                    ELSE ""

\* ------------------------------------------------------------- file system
\* an existing image file with a registered extension
FileTif == <<"s", ".", "t", "i", "f">>
\* an existing image file whose extension differs from "tif" in case only
FileTIF == <<"s", ".", "T", "I", "F">>
\* an existing image file with no registered extension
FileBmp == <<"s", ".", "b", "m", "p">>
\* an existing directory
DirPath == <<"d">>
\* a path that does not exist
Missing == <<"n", "o">>

\* names a file of the directory may have
FileNames == {<<"a">>, <<"a", "b">>, <<"b">>, <<"c">>}

\* os.path.join(directory, name)
join(dir, p) == dir \o <<"/">> \o p

Range(s) == {s[i] : i \in DOMAIN s}

\* os.path.isdir
isdir(p) == p = DirPath

\* os.path.isfile
isfile(p) == \/ p \in {FileTif, FileTIF, FileBmp}
             \/ \E n \in Range(listing) : p = join(DirPath, n)

\* os.path.exists
exists(p) == isfile(p) \/ isdir(p)

Paths == {FileTif, FileTIF, FileBmp, DirPath, Missing}

\* ------------------------------------------------------------------ strings
\* code point of a character
Ord(c) ==
    CASE c = "." -> 46 [] c = "/" -> 47
      [] c = "F" -> 70 [] c = "I" -> 73 [] c = "T" -> 84
      [] c = "a" -> 97 [] c = "b" -> 98 [] c = "c" -> 99 [] c = "d" -> 100
      [] c = "f" -> 102 [] c = "i" -> 105 [] c = "m" -> 109 [] c = "n" -> 110
      [] c = "o" -> 111 [] c = "p" -> 112 [] c = "s" -> 115 [] c = "t" -> 116
      [] c = "v" -> 118

RECURSIVE StrLess(_, _)
\* Python's a < b on str
StrLess(a, b) ==
    IF b = <<>> THEN FALSE
    ELSE IF a = <<>> THEN TRUE
    ELSE IF Ord(Head(a)) # Ord(Head(b)) THEN Ord(Head(a)) < Ord(Head(b))
    ELSE StrLess(Tail(a), Tail(b))

RECURSIVE Insert(_, _)
Insert(x, s) ==
    IF s = <<>> THEN <<x>>
    ELSE IF StrLess(x, Head(s)) THEN <<x>> \o s
    ELSE <<Head(s)>> \o Insert(x, Tail(s))

RECURSIVE sort(_)
\* list.sort() of a list of str
sort(s) == IF s = <<>> THEN <<>> ELSE Insert(Head(s), sort(Tail(s)))

\* filepath.split('.')[-1]
SplitExt(p) ==
    LET dots == {i \in DOMAIN p : p[i] = "."}
    IN IF dots = {} THEN p
       ELSE LET last == CHOOSE i \in dots : \A j \in dots : j <= i
            IN SubSeq(p, last + 1, Len(p))

\* FORMAT_ADAPTER_MAP.get(image_format)
FORMAT_ADAPTER_MAP(image_format) ==
    CASE image_format = <<"t", "i", "f">> -> "VIPS"
      [] image_format = <<"t", "i", "f", "f">> -> "VIPS"
      [] image_format = <<"s", "v", "s">> -> "SlideIO"
      [] OTHER -> None

\* ------------------------------------------------------------------ readers
NoReader == [id |-> 0, cls |-> None, filepath |-> <<>>, adapter |-> None,
             files |-> <<>>]

\* the result of a constructor: the exception, the object, the adapters created
Built(r, n) == [exc |-> "", val |-> <<>>, obj |-> r, created |-> n]

Failed(e, v) == [exc |-> e, val |-> v, obj |-> NoReader, created |-> 0]

\* isinstance(obj, Adapter)
IsAdapter(obj) == obj \in {"VIPS", "SlideIO"}

\* ImageReaderAdaptive.adapter setter: "" when new_adapter is accepted
AdapterSetter(new_adapter) == IF ~IsAdapter(new_adapter) THEN "TypeError" ELSE ""

\* ImageReader.__init__ run on an object of class cls
ImageReaderInit(cls, filepath, id) ==
    IF ~isfile(filepath) THEN Failed("AssertionError", <<>>)
    \* self.adapter = None goes through the subclass's property setter
    ELSE IF cls = "ImageReaderAdaptive" /\ AdapterSetter(None) # ""
        THEN Failed(AdapterSetter(None), <<>>)
    ELSE LET image_format == SplitExt(filepath)
             adapter == FORMAT_ADAPTER_MAP(image_format)
         IN IF adapter = None
                THEN Failed("UnsupportedFormatException", image_format)
            ELSE Built([id |-> id, cls |-> cls, filepath |-> filepath,
                        adapter |-> adapter, files |-> <<>>], 1)

\* ImageReaderAdaptive.__init__
ImageReaderAdaptiveInit(filepath, id) ==
    LET base == ImageReaderInit("ImageReaderAdaptive", filepath, id)
    IN IF base.exc # "" THEN base
       ELSE Built([base.obj EXCEPT !.adapter = None], base.created)

\* attributes of an ImageReaderDirectory when __init__ reads self._dir
DirectoryAttributes == {"filepath"}

\* ImageReaderDirectory.__init__ (image_reader_directory.py)
ImageReaderDirectoryInit(filepath, id) ==
    IF ~exists(filepath) THEN Failed("DirectoryDoesNotExistException", filepath)
    ELSE IF ~isdir(filepath) THEN Failed("DirectoryDoesNotExistException", filepath)
    ELSE IF "_dir" \notin DirectoryAttributes THEN Failed("AttributeError", <<>>)
    ELSE Built([id |-> id, cls |-> "ImageReaderDirectory", filepath |-> filepath,
                adapter |-> None,
                files |-> sort([i \in DOMAIN listing |-> join(filepath, listing[i])])],
               0)

\* ImageReaderDirectory.__init__ of the earlier class kept in image_reader.py,
\* given a str
DraftDirectoryInit(data, id) ==
    IF ~isdir(data) THEN Failed("Exception", data)
    ELSE Built([id |-> id, cls |-> "DraftDirectory", filepath |-> <<>>,
                adapter |-> None,
                files |-> sort([i \in DOMAIN listing |-> join(data, listing[i])])],
               0)

ReaderClasses == {"ImageReader", "ImageReaderAdaptive", "ImageReaderDirectory",
                  "DraftDirectory"}

\* cls(filepath)
Construct(cls, filepath, id) ==
    CASE cls = "ImageReader" -> ImageReaderInit(cls, filepath, id)
      [] cls = "ImageReaderAdaptive" -> ImageReaderAdaptiveInit(filepath, id)
      [] cls = "ImageReaderDirectory" -> ImageReaderDirectoryInit(filepath, id)
      [] cls = "DraftDirectory" -> DraftDirectoryInit(filepath, id)

\* ---------------------------------------------------------- types.py checks
NoValue == [t |-> None, v |-> <<>>]

IntVal(n) == [t |-> "int", v |-> <<n>>]

\* a float, given as twice its value
FloatVal(twice) == [t |-> "float", v |-> <<twice>>]

TupleVal(s) == [t |-> "tuple", v |-> s]

StrVal == [t |-> "str", v |-> <<>>]

\* is_region_index without the float branch
is_region_index_int_only(obj) == obj.t = "int"

\* types.is_region_index
is_region_index(obj) ==
    IF obj.t = "float" THEN obj.v[1] % 2 = 0
    ELSE obj.t = "int"

\* types.is_iterable_of_certain_length_and_type(obj, length, int)
\* (the length compared is the literal 2; a str's elements are not ints)
is_iterable_of_certain_length_and_type(obj, length) ==
    obj.t = "tuple" /\ Len(obj.v) = 2

\* types.is_region_coordinates
is_region_coordinates(obj) == is_iterable_of_certain_length_and_type(obj, 2)

\* the number an index stands for
NumberOf(obj) == IF obj.t = "float" THEN obj.v[1] \div 2 ELSE obj.v[1]

\* -------------------------------------------------------- reader operations
\* the outcome of a reader method: exception, value, region, adapter fetches,
\* files read
Out(exc, val, region, fetched, read) ==
    [exc |-> exc, val |-> val, region |-> region, fetched |-> fetched,
     read |-> read]

Err(e) == Out(e, <<>>, NoRegion, <<>>, <<>>)

Val(v) == Out("", v, NoRegion, <<>>, <<>>)

IsDirectoryClass(r) == r.cls \in {"ImageReaderDirectory", "DraftDirectory"}

\* the width property: adapter.get_width(), or a directory reader's refusal
ReaderWidth(r) ==
    IF IsDirectoryClass(r) THEN Err("NotImplementedError") ELSE Val(<<imgW>>)

\* the height property
ReaderHeight(r) ==
    IF IsDirectoryClass(r) THEN Err("NotImplementedError") ELSE Val(<<imgH>>)

\* the dims property
ReaderDims(r) ==
    IF IsDirectoryClass(r) THEN Err("NotImplementedError")
    ELSE Val(<<imgW, imgH>>)

\* reader.number_of_regions(region_dims)
ReaderNumberOfRegions(r, region_dims) ==
    IF IsDirectoryClass(r) THEN Val(<<Len(r.files)>>)
    ELSE LET n == number_of_regions(imgW, imgH, region_dims)
         IN Out(n.exc, n.val, NoRegion, <<>>, <<>>)

\* reader.region_index_to_coordinates(region_index, region_dims)
ReaderIndexToCoordinates(r, region_index, region_dims) ==
    IF Len(region_dims) # 2 THEN Err("ValueError")
    ELSE IF IsDirectoryClass(r) THEN Err("NotImplementedError")
    ELSE LET c == region_index_to_coordinates(imgW, imgH, region_index, region_dims)
         IN Out(c.exc, c.val, NoRegion, <<>>, <<>>)

\* reader.validate_region(region_coordinates, region_dims)
ReaderValidateRegion(r, region_coordinates, region_dims) ==
    \* a directory reader inherits the method and fails at self.width
    IF IsDirectoryClass(r)
        THEN IF Len(region_coordinates) # 2
                 THEN Err("InvalidCoordinatesException")
             ELSE Err("NotImplementedError")
    ELSE Err(validate_region(imgW, imgH, region_coordinates, region_dims))

\* ImageReader.get_region; backendOk: the adapter's fetch succeeds
ImageReaderGetRegion(r, region_identifier, region_dims, backendOk) ==
    LET resolved ==
            IF is_region_index(region_identifier)
                THEN ReaderIndexToCoordinates(r, NumberOf(region_identifier),
                                              region_dims)
            ELSE IF is_region_coordinates(region_identifier)
                THEN Val(region_identifier.v)
            \* raise_type_error is not a name of image_reader.py
            ELSE Err("NameError")
    IN IF resolved.exc # "" THEN resolved
       ELSE LET region_coordinates == resolved.val
                valid == ReaderValidateRegion(r, region_coordinates, region_dims)
            IN IF valid.exc # "" THEN valid
               ELSE LET call == <<[coords |-> region_coordinates,
                                   dims |-> region_dims]>>
                    IN IF backendOk
                       THEN Out("", <<>>,
                                [file |-> r.filepath,
                                 coords |-> region_coordinates,
                                 dims |-> region_dims], call, <<>>)
                       ELSE Out("BackendFailure", <<>>, NoRegion, call, <<>>)

\* cv.imread(region_filepath): the whole file as one region
imread(region_filepath) ==
    Out("", <<>>, [file |-> region_filepath, coords |-> <<>>, dims |-> <<>>],
        <<>>, <<region_filepath>>)

\* ImageReaderDirectory.get_region (image_reader_directory.py)
DirectoryGetRegion(r, region_identifier) ==
    IF ~is_region_index(region_identifier) THEN Err("NotImplementedError")
    ELSE IF ~(0 <= NumberOf(region_identifier)
              /\ NumberOf(region_identifier) < Len(r.files))
        THEN Err("IndexError")
    \* a list is indexed by int only
    ELSE IF region_identifier.t # "int" THEN Err("TypeError")
    ELSE imread(r.files[NumberOf(region_identifier) + 1])

\* ImageReaderDirectory.get_region of the class kept in image_reader.py
DraftDirectoryGetRegion(r, region_identifier) ==
    IF region_identifier.t # "int" THEN Err("NotImplementedError")
    ELSE IF ~(0 <= NumberOf(region_identifier)
              /\ NumberOf(region_identifier) < Len(r.files))
        THEN Err("IndexError")
    ELSE imread(r.files[NumberOf(region_identifier) + 1])

\* reader.get_region(region_identifier, region_dims)
ReaderGetRegion(r, region_identifier, region_dims, backendOk) ==
    CASE r.cls = "ImageReaderDirectory" -> DirectoryGetRegion(r, region_identifier)
      [] r.cls = "DraftDirectory" -> DraftDirectoryGetRegion(r, region_identifier)
      [] OTHER -> ImageReaderGetRegion(r, region_identifier, region_dims, backendOk)

\* ------------------------------------------------------------------- calls
NoCall == [op |-> "", on |-> None, path |-> <<>>, ident |-> NoValue,
           dims |-> <<>>, exc |-> "", val |-> <<>>, region |-> NoRegion,
           fetched |-> <<>>, read |-> <<>>, created |-> 0, body |-> ""]

\* the record of a method call op(ident, dims) on an object of class on
Call(op, on, ident, dims, out) ==
    [NoCall EXCEPT !.op = op, !.on = on, !.ident = ident, !.dims = dims,
                   !.exc = out.exc, !.val = out.val, !.region = out.region,
                   !.fetched = out.fetched, !.read = out.read]

NoImage == [filepath |-> <<>>, reader |-> NoReader, iter |-> -1]

\* ------------------------------------------ calls on the caller's own reader
\* ureader.number_of_regions(dims)
UNumberOfRegions(D) ==
    /\ ureader # NoReader
    /\ \E dims \in D :
         ret' = Call("number_of_regions", ureader.cls, NoValue, dims,
                     ReaderNumberOfRegions(ureader, dims))
    /\ UNCHANGED <<imgW, imgH, listing, image, ureader, served, nextId, inp>>

\* ureader.region_index_to_coordinates(i, dims)
UIndexToCoordinates(I, D) ==
    /\ ureader # NoReader
    /\ \E i \in I, dims \in D :
         ret' = Call("region_index_to_coordinates", ureader.cls, IntVal(i), dims,
                     ReaderIndexToCoordinates(ureader, i, dims))
    /\ UNCHANGED <<imgW, imgH, listing, image, ureader, served, nextId, inp>>

\* ureader.validate_region(coords, dims)
UValidateRegion(C, D) ==
    /\ ureader # NoReader
    /\ \E coords \in C, dims \in D :
         ret' = Call("validate_region", ureader.cls, TupleVal(coords), dims,
                     ReaderValidateRegion(ureader, coords, dims))
    /\ UNCHANGED <<imgW, imgH, listing, image, ureader, served, nextId, inp>>

\* ureader.get_region(ident, dims)
UGetRegion(Ids, D) ==
    /\ ureader # NoReader
    /\ \E ident \in Ids, dims \in D, backendOk \in BOOLEAN :
         ret' = Call("get_region", ureader.cls, ident, dims,
                     ReaderGetRegion(ureader, ident, dims, backendOk))
    /\ UNCHANGED <<imgW, imgH, listing, image, ureader, served, nextId, inp>>

\* ------------------------------------- region geometry on small images
SmallInts == -1 .. MaxDim + 1

SmallPairs == {<<a, b>> : a \in SmallInts, b \in SmallInts}

SmallIndices == 0 .. MaxDim * MaxDim

\* sequences of one and of three coordinates, inside and outside the image
Malformed == {<<0>>, <<MaxDim + 1>>, <<0, 0, 0>>, <<-1, 0, MaxDim + 1>>}

\* floats from -1.0 to 2.0 in steps of one half
SmallFloats == {FloatVal(twice) : twice \in -2 .. 4}

\* identifiers: indices, floats, coordinate pairs, 1-element and 3-element
\* sequences, a str
SmallIdents == {IntVal(i) : i \in SmallIndices}
                 \cup SmallFloats
                 \cup {TupleVal(c) : c \in SmallPairs \cup Malformed}
                 \cup {StrVal}

NoInput == [ident |-> NoValue, dims |-> <<>>]

\* the index argument, when the identifier under study is one
InputIndices == IF inp.ident.t = "int" THEN {inp.ident.v[1]} ELSE {}

\* the coordinate argument, when the identifier under study is a sequence
InputCoords == IF inp.ident.t = "tuple" THEN {inp.ident.v} ELSE {}

\* a constructed ImageReader over an image of every small size, and every
\* small argument list
InitGeom ==
    /\ imgW \in 1 .. MaxDim
    /\ imgH \in 1 .. MaxDim
    /\ listing = <<>>
    /\ image = NoImage
    /\ ureader = Construct("ImageReader", FileTif, 1).obj
    /\ ret = [NoCall EXCEPT !.op = "ImageReader", !.path = FileTif, !.created = 1]
    /\ served = <<>>
    /\ nextId = 2
    /\ inp \in [ident : SmallIdents, dims : SmallPairs]

\* a bool as the int it equals
BoolVal(b) == IF b THEN 1 ELSE 0

\* types.is_region_index(obj)
IsRegionIndexCall ==
    /\ ret' = Call("is_region_index", "types", inp.ident, <<>>,
                   Val(<<BoolVal(is_region_index(inp.ident))>>))
    /\ UNCHANGED <<imgW, imgH, listing, image, ureader, served, nextId, inp>>

NextGeom ==
    \/ IsRegionIndexCall
    \/ UNumberOfRegions({inp.dims})
    \/ UIndexToCoordinates(InputIndices, {inp.dims})
    \/ UValidateRegion(InputCoords, {inp.dims})
    \/ UGetRegion({inp.ident}, {inp.dims})

SpecGeom == InitGeom /\ [][NextGeom]_vars

\* ---------------------------------------------- region geometry: properties
\* the last call was op on an ImageReader, with two-element dims
GeomCall(op) == ret.op = op /\ ret.on = "ImageReader" /\ Len(ret.dims) = 2

PositiveDims == ret.dims[1] > 0 /\ ret.dims[2] > 0

Pixels == {<<x, y>> : x \in 0 .. imgW - 1, y \in 0 .. imgH - 1}

\* the pixels of the rectangle [left, left+w) x [top, top+h)
Rect(c, d) == {<<x, y>> : x \in c[1] .. c[1] + d[1] - 1,
                          y \in c[2] .. c[2] + d[2] - 1}

\* origins of the whole tiles of size w x h that fit in the image
FullTiles(w, h) == {p \in Pixels : /\ p[1] % w = 0 /\ p[2] % h = 0
                                   /\ p[1] + w <= imgW /\ p[2] + h <= imgH}

\* the region count of the image at the dims of the last call
CountAtDims == number_of_regions(imgW, imgH, ret.dims).val[1]

\* C1: for region dims (w, h) with 0 < w <= W and 0 < h <= H,
\* number_of_regions returns (W // w) * (H // h), which is the number of whole
\* tiles that fit: a remainder strip is not counted.
C1_NumberOfRegions ==
    (/\ GeomCall("number_of_regions")
     /\ 0 < ret.dims[1] /\ ret.dims[1] <= imgW
     /\ 0 < ret.dims[2] /\ ret.dims[2] <= imgH)
    => /\ ret.exc = ""
       /\ ret.val = <<(imgW \div ret.dims[1]) * (imgH \div ret.dims[2])>>
       /\ ret.val[1] = Cardinality(FullTiles(ret.dims[1], ret.dims[2]))

\* a count of at least two tiles on an image with a remainder strip
C1_Witness ==
    /\ GeomCall("number_of_regions")
    /\ 0 < ret.dims[1] /\ ret.dims[1] <= imgW
    /\ 0 < ret.dims[2] /\ ret.dims[2] <= imgH
    /\ imgW % ret.dims[1] # 0
    /\ ret.exc = ""
    /\ ret.val[1] >= 2

\* C2: for region dims of positive width and height and an index i with
\* 0 <= i < number_of_regions(dims), region_index_to_coordinates succeeds and
\* validate_region accepts its result with the same dims; get_region(i, dims)
\* therefore reaches the adapter and raises no validation error.
C2_InRangeTilesValid ==
    /\ (/\ GeomCall("region_index_to_coordinates")
        /\ PositiveDims
        /\ ret.ident.v[1] < CountAtDims)
       => /\ ret.exc = ""
          /\ validate_region(imgW, imgH, ret.val, ret.dims) = ""
    /\ (/\ GeomCall("get_region")
        /\ ret.ident.t = "int"
        /\ PositiveDims
        /\ ret.ident.v[1] < CountAtDims)
       => /\ ret.exc \in {"", "BackendFailure"}
          /\ Len(ret.fetched) = 1

\* the last of at least four tiles, on an image with a remainder strip, is read
C2_Witness ==
    /\ GeomCall("get_region")
    /\ ret.ident.t = "int"
    /\ PositiveDims
    /\ imgW % ret.dims[1] # 0
    /\ CountAtDims >= 4
    /\ ret.ident.v[1] = CountAtDims - 1
    /\ ret.exc = ""
    /\ ret.region.coords[2] > 0

\* the coordinates the reader gives index i at the dims of the last call
CoordsAt(i) == region_index_to_coordinates(imgW, imgH, i, ret.dims)

\* C3: when w divides W and h divides H, the rectangles of the indices
\* 0 .. number_of_regions-1 lie in the image and every pixel of the image is
\* in exactly one of them.
C3_ExactTiling ==
    (/\ GeomCall("region_index_to_coordinates")
     /\ PositiveDims
     /\ ret.dims[1] <= imgW /\ imgW % ret.dims[1] = 0
     /\ ret.dims[2] <= imgH /\ imgH % ret.dims[2] = 0)
    => /\ \A i \in 0 .. CountAtDims - 1 :
            /\ CoordsAt(i).exc = ""
            /\ Rect(CoordsAt(i).val, ret.dims) \subseteq Pixels
       /\ \A p \in Pixels :
            Cardinality({i \in 0 .. CountAtDims - 1 :
                            p \in Rect(CoordsAt(i).val, ret.dims)}) = 1
       /\ ret.ident.v[1] < CountAtDims
            => ret.exc = "" /\ Rect(ret.val, ret.dims) \subseteq Pixels

\* the bottom-right tile of a grid of at least two rows and two columns of
\* non-square shape
C3_Witness ==
    /\ GeomCall("region_index_to_coordinates")
    /\ PositiveDims
    /\ ret.dims[1] <= imgW /\ imgW % ret.dims[1] = 0
    /\ ret.dims[2] <= imgH /\ imgH % ret.dims[2] = 0
    /\ imgW \div ret.dims[1] >= 2
    /\ imgH \div ret.dims[2] >= 2
    /\ imgW # imgH
    /\ ret.ident.v[1] = CountAtDims - 1
    /\ ret.val = <<imgW - ret.dims[1], imgH - ret.dims[2]>>

\* the region of the last validate_region call fits the image
Fits ==
    LET left == ret.ident.v[1]
        top == ret.ident.v[2]
    IN /\ 0 <= left /\ 0 <= top
       /\ ret.dims[1] > 0 /\ ret.dims[2] > 0
       /\ left + ret.dims[1] <= imgW
       /\ top + ret.dims[2] <= imgH

\* C4: for integer pairs (left, top) and (w, h), validate_region returns
\* without error exactly when 0 <= left, 0 <= top, w > 0, h > 0,
\* left + w <= W and top + h <= H, and raises IndexError otherwise.
C4_ValidateRegionBounds ==
    (GeomCall("validate_region") /\ Len(ret.ident.v) = 2)
    => /\ Fits => ret.exc = ""
       /\ ~Fits => ret.exc = "IndexError"

\* a region away from the origin that ends exactly on both far edges passes
C4_Witness ==
    /\ GeomCall("validate_region")
    /\ Len(ret.ident.v) = 2
    /\ ret.ident.v[1] > 0
    /\ ret.ident.v[1] + ret.dims[1] = imgW
    /\ ret.ident.v[2] + ret.dims[2] = imgH
    /\ ret.exc = ""

\* C5 as stated: region_index_to_coordinates(0, dims) returns (0, 0) for every
\* dims of positive width and height.
C5_Original ==
    (/\ GeomCall("region_index_to_coordinates")
     /\ PositiveDims
     /\ ret.ident.v[1] = 0)
    => ret.exc = "" /\ ret.val = <<0, 0>>

\* C5 amended: region_index_to_coordinates(0, dims) returns (0, 0) for every
\* dims of positive width and height whose width is at most the image width;
\* for a wider region it raises ZeroDivisionError.
C5_IndexZeroOrigin ==
    (/\ GeomCall("region_index_to_coordinates")
     /\ PositiveDims
     /\ ret.ident.v[1] = 0)
    => IF ret.dims[1] <= imgW
       THEN ret.exc = "" /\ ret.val = <<0, 0>>
       ELSE ret.exc = "ZeroDivisionError"

\* index 0 of a grid with several columns, with a region taller than the image
C5_Witness ==
    /\ GeomCall("region_index_to_coordinates")
    /\ PositiveDims
    /\ ret.ident.v[1] = 0
    /\ 2 * ret.dims[1] <= imgW
    /\ ret.dims[2] > imgH
    /\ ret.val = <<0, 0>>

\* ------------------------------------------------------------ Image facade
\* side of the default tile (config.DEFAULT_REGION_DIMS)
DefaultSide == 512

DEFAULT_REGION_DIMS == <<DefaultSide, DefaultSide>>

\* the outcome of Image.reader: the exception, the reader, the facade
\* afterwards, the readers and adapters constructed on the way
Resolved(exc, r, img, built, created) ==
    [exc |-> exc, reader |-> r, img |-> img, built |-> built,
     created |-> created]

\* Image.reader (getter) on the facade img; id: identity of a new reader
ImageReaderGetter(img, id) ==
    IF img.reader # NoReader THEN Resolved("", img.reader, img, 0, 0)
    ELSE LET c == IF isfile(img.filepath)
                      THEN Construct("ImageReaderAdaptive", img.filepath, id)
                  ELSE IF isdir(img.filepath)
                      THEN Construct("ImageReaderDirectory", img.filepath, id)
                  ELSE Failed("FileDoesNotExistException", img.filepath)
         IN IF c.exc # "" THEN Resolved(c.exc, NoReader, img, 0, 0)
            ELSE Resolved("", c.obj, [img EXCEPT !.reader = c.obj], 1, c.created)

\* isinstance(new_reader, ImageReader) taken as new_reader is not None
IsImageReaderNotNone(obj) == obj.cls # None

\* isinstance(new_reader, ImageReader)
IsImageReader(obj) == obj.cls \in ReaderClasses

\* an object passed as an argument: its class and its identity
ObjectVal(obj) == [t |-> obj.cls, v |-> <<obj.id>>]

\* the record of a call on the facade that went through Image.reader
FacadeCall(op, ident, dims, res, out) ==
    IF res.exc # ""
    THEN [NoCall EXCEPT !.op = op, !.on = "Image", !.ident = ident,
                        !.dims = dims, !.exc = res.exc]
    ELSE [Call(op, "Image", ident, dims, out) EXCEPT !.created = res.created]

\* the facade may construct a reader only while identities remain
MayResolve == image # NoImage /\ (image.reader # NoReader \/ nextId <= MaxReaders)

\* Image(filepath)
NewImage ==
    \E filepath \in {FileTif, DirPath, Missing} :
        IF ~exists(filepath)
        THEN /\ ret' = [NoCall EXCEPT !.op = "Image", !.on = "Image",
                                      !.path = filepath,
                                      !.exc = "FileDoesNotExistException"]
             /\ UNCHANGED <<imgW, imgH, listing, image, ureader, served, nextId, inp>>
        ELSE /\ image' = [filepath |-> filepath, reader |-> NoReader, iter |-> -1]
             /\ served' = <<>>
             /\ ret' = [NoCall EXCEPT !.op = "Image", !.on = "Image",
                                      !.path = filepath]
             /\ UNCHANGED <<imgW, imgH, listing, ureader, nextId, inp>>

\* cls(filepath), kept by the caller
NewReader(Classes, Filepaths) ==
    /\ nextId <= MaxReaders
    /\ \E cls \in Classes, filepath \in Filepaths :
         LET c == Construct(cls, filepath, nextId)
         IN /\ ret' = [NoCall EXCEPT !.op = "__init__", !.on = cls,
                                     !.path = filepath, !.exc = c.exc,
                                     !.val = c.val, !.created = c.created]
            /\ ureader' = IF c.exc = "" THEN c.obj ELSE ureader
            /\ nextId' = IF c.exc = "" THEN nextId + 1 ELSE nextId
    /\ UNCHANGED <<imgW, imgH, listing, image, served, inp>>

\* image.reader
GetReader ==
    /\ MayResolve
    /\ LET res == ImageReaderGetter(image, nextId)
       IN /\ image' = res.img
          /\ nextId' = nextId + res.built
          /\ ret' = [NoCall EXCEPT !.op = "reader", !.on = "Image",
                                   !.path = image.filepath, !.exc = res.exc,
                                   !.val = <<res.reader.id>>,
                                   !.created = res.created]
    /\ UNCHANGED <<imgW, imgH, listing, ureader, served, inp>>

\* image.reader = new_reader
SetReader ==
    /\ image # NoImage
    /\ \E new_reader \in {ureader, [NoReader EXCEPT !.cls = "str"]} :
         IF ~IsImageReader(new_reader)
         THEN /\ ret' = [NoCall EXCEPT !.op = "reader.setter", !.on = "Image",
                                       !.ident = ObjectVal(new_reader),
                                       !.exc = "TypeError"]
              /\ UNCHANGED image
         ELSE /\ image' = [image EXCEPT !.reader = new_reader]
              /\ ret' = [NoCall EXCEPT !.op = "reader.setter", !.on = "Image",
                                       !.ident = ObjectVal(new_reader),
                                       !.val = <<new_reader.id>>]
    /\ UNCHANGED <<imgW, imgH, listing, ureader, served, nextId, inp>>

\* image.get_region(ident) with the default region_dims
ImageGetRegion(Ids) ==
    /\ MayResolve
    /\ \E ident \in Ids, backendOk \in BOOLEAN :
         LET res == ImageReaderGetter(image, nextId)
         IN /\ image' = res.img
            /\ nextId' = nextId + res.built
            /\ ret' = FacadeCall("get_region", ident, DEFAULT_REGION_DIMS, res,
                                 ReaderGetRegion(res.reader, ident,
                                                 DEFAULT_REGION_DIMS, backendOk))
    /\ UNCHANGED <<imgW, imgH, listing, ureader, served, inp>>

\* image.number_of_regions() with the default region_dims
ImageNumberOfRegions ==
    /\ MayResolve
    /\ LET res == ImageReaderGetter(image, nextId)
       IN /\ image' = res.img
          /\ nextId' = nextId + res.built
          /\ ret' = FacadeCall("number_of_regions", NoValue, DEFAULT_REGION_DIMS,
                               res, ReaderNumberOfRegions(res.reader,
                                                          DEFAULT_REGION_DIMS))
    /\ UNCHANGED <<imgW, imgH, listing, ureader, served, inp>>

\* image.width, image.height, image.dims
ImageGeometry ==
    /\ MayResolve
    /\ \E prop \in {"width", "height", "dims"} :
         LET res == ImageReaderGetter(image, nextId)
             out == CASE prop = "width" -> ReaderWidth(res.reader)
                      [] prop = "height" -> ReaderHeight(res.reader)
                      [] prop = "dims" -> ReaderDims(res.reader)
         IN /\ image' = res.img
            /\ nextId' = nextId + res.built
            /\ ret' = FacadeCall(prop, NoValue, <<>>, res, out)
    /\ UNCHANGED <<imgW, imgH, listing, ureader, served, inp>>

\* len(image)
ImageLen ==
    /\ MayResolve
    /\ LET res == ImageReaderGetter(image, nextId)
       IN /\ image' = res.img
          /\ nextId' = nextId + res.built
          /\ ret' = FacadeCall("__len__", NoValue, DEFAULT_REGION_DIMS, res,
                               ReaderNumberOfRegions(res.reader,
                                                     DEFAULT_REGION_DIMS))
    /\ UNCHANGED <<imgW, imgH, listing, ureader, served, inp>>

\* iter(image)
ImageIter ==
    /\ image # NoImage
    /\ image' = [image EXCEPT !.iter = 0]
    /\ served' = <<>>
    /\ ret' = [NoCall EXCEPT !.op = "__iter__", !.on = "Image"]
    /\ UNCHANGED <<imgW, imgH, listing, ureader, nextId, inp>>

\* positional parameters of Image.__exit__(self, **kwargs) besides self
ExitPositionalParameters == 0

\* image.__exit__(exc_type, exc_value, traceback): the call binds its three
\* arguments to the parameters, then returns what
\* AbstractContextManager.__exit__ returns (None)
ImageExit(arguments) ==
    IF Len(arguments) > ExitPositionalParameters THEN Raise("TypeError")
    ELSE Ok(<<>>)

\* with image as img: body.  __enter__ returns the facade; the body ends
\* normally or raises BodyError; __exit__ is then called with the exception's
\* type, value and traceback (three None after a normal end), and an error it
\* raises is the one the statement raises
ImageWith ==
    /\ image # NoImage
    /\ \E body \in {"", "BodyError"} :
         LET exit == ImageExit(<<body, body, body>>)
         IN ret' = [NoCall EXCEPT !.op = "with", !.on = "Image",
                                  !.path = image.filepath, !.body = body,
                                  !.exc = IF exit.exc # "" THEN exit.exc
                                          ELSE body]
    /\ UNCHANGED <<imgW, imgH, listing, image, ureader, served, nextId, inp>>

\* the test of Image.__next__ ending the traversal one region early
IterExhaustedEarly(iter, count) == iter >= count - 1

\* the test of Image.__next__ that ends the traversal
IterExhausted(iter, count) == iter >= count

\* the cursor advanced before the region is fetched
CursorAfterAdvanceFirst(iter, exc) == iter + 1

\* the cursor of Image.__next__ after get_region ended with exc: the increment
\* follows the call and is skipped when it raises
CursorAfter(iter, exc) == IF exc = "" THEN iter + 1 ELSE iter

\* next(image)
ImageNext ==
    /\ MayResolve
    /\ \E backendOk \in BOOLEAN :
         LET res == ImageReaderGetter(image, nextId)
             count == ReaderNumberOfRegions(res.reader, DEFAULT_REGION_DIMS)
             ident == IntVal(image.iter)
             got == ReaderGetRegion(res.reader, ident, DEFAULT_REGION_DIMS,
                                    backendOk)
             stay(exc) == /\ image' = res.img
                          /\ served' = served
                          /\ ret' = [NoCall EXCEPT !.op = "__next__",
                                                   !.on = "Image", !.exc = exc]
         IN /\ nextId' = nextId + res.built
            /\ IF res.exc # "" THEN stay(res.exc)
               ELSE IF count.exc # "" THEN stay(count.exc)
               \* None >= int
               ELSE IF image.iter = -1 THEN stay("TypeError")
               ELSE IF IterExhausted(image.iter, count.val[1])
                   THEN stay("StopIteration")
               ELSE IF got.exc # ""
                   THEN /\ image' = [res.img EXCEPT
                                       !.iter = CursorAfter(image.iter, got.exc)]
                        /\ served' = served
                        /\ ret' = Call("__next__", "Image", ident,
                                       DEFAULT_REGION_DIMS, got)
               ELSE /\ image' = [res.img EXCEPT
                                   !.iter = CursorAfter(image.iter, got.exc)]
                    /\ served' = Append(served, [reader |-> res.reader.id,
                                                 index |-> image.iter,
                                                 region |-> got.region])
                    /\ ret' = Call("__next__", "Image", ident,
                                   DEFAULT_REGION_DIMS, got)
    /\ UNCHANGED <<imgW, imgH, listing, ureader, inp>>

\* ----------------------------------------------------------- the readers
\* sides of a slide: one pixel short of a tile, and k tiles with k-1 pixels over
SlideSides == {DefaultSide - 1}
                \cup {DefaultSide * k + (k - 1) : k \in 1 .. MaxTiles}

\* the directory's entries in any order the OS may list them
Listings == {s \in UNION {[1 .. n -> FileNames] : n \in 0 .. MaxFiles} :
                \A i, j \in DOMAIN s : i # j => s[i] # s[j]}

\* identifiers passed to get_region: indices around the range, floats with and
\* without an integral value, sequences of one, two and three ints, a str
Idents == {IntVal(i) : i \in {-1, 0, 1, MaxFiles, MaxTiles * MaxTiles}}
            \cup {FloatVal(2), FloatVal(1), TupleVal(<<0, 0>>),
                  TupleVal(<<0>>), StrVal}

\* ureader.width, ureader.height, ureader.dims
UGeometry ==
    /\ ureader # NoReader
    /\ \E prop \in {"width", "height", "dims"} :
         ret' = Call(prop, ureader.cls, NoValue, <<>>,
                     CASE prop = "width" -> ReaderWidth(ureader)
                       [] prop = "height" -> ReaderHeight(ureader)
                       [] prop = "dims" -> ReaderDims(ureader))
    /\ UNCHANGED <<imgW, imgH, listing, image, ureader, served, nextId, inp>>

\* readers constructed and used directly, over every directory listing
InitReaders ==
    /\ imgW \in SlideSides
    /\ imgH = DefaultSide * MaxTiles
    /\ listing \in Listings
    /\ image = NoImage
    /\ ureader = NoReader
    /\ ret = NoCall
    /\ served = <<>>
    /\ nextId = 1
    /\ inp = NoInput

NextReaders ==
    \/ NewReader(ReaderClasses, Paths)
    \/ UNumberOfRegions({DEFAULT_REGION_DIMS, <<1, 1>>})
    \/ UGetRegion(Idents, {DEFAULT_REGION_DIMS})
    \/ UGeometry

SpecReaders == InitReaders /\ [][NextReaders]_vars

\* --------------------------------------------------------------- the facade
\* the directory listed in descending order
RECURSIVE Reverse(_)
Reverse(s) == IF s = <<>> THEN <<>> ELSE Append(Reverse(Tail(s)), Head(s))

DescendingListings == {s \in Listings : Len(s) = MaxFiles /\ sort(s) = Reverse(s)}

\* identifiers passed to the facade's get_region
FacadeIdents == {IntVal(0), IntVal(MaxTiles * MaxTiles), TupleVal(<<0, 0>>),
                 StrVal}

Init ==
    /\ imgW \in SlideSides
    /\ imgH = DefaultSide * MaxTiles
    /\ listing \in DescendingListings
    /\ image = NoImage
    /\ ureader = NoReader
    /\ ret = NoCall
    /\ served = <<>>
    /\ nextId = 1
    /\ inp = NoInput

Next ==
    \/ NewImage
    \/ NewReader({"ImageReader", "DraftDirectory"}, {FileTif, DirPath})
    \/ GetReader
    \/ SetReader
    \/ ImageGetRegion(FacadeIdents)
    \/ ImageNumberOfRegions
    \/ ImageGeometry
    \/ ImageLen
    \/ ImageIter
    \/ ImageNext
    \/ ImageWith

Spec == Init /\ [][Next]_vars

\* ------------------------------------------- facade and readers: properties
GeometryProps == {"width", "height", "dims"}

\* C6 as stated: Image over a missing path fails with
\* FileDoesNotExistException; over an existing file the reader access yields
\* an ImageReaderAdaptive whose width, height and dims are available; over an
\* existing directory it yields an ImageReaderDirectory whose width, height
\* and dims fail with NotImplementedError.
C6_Original ==
    /\ (ret.op = "Image" /\ ~exists(ret.path))
       => ret.exc = "FileDoesNotExistException"
    /\ (ret.op = "reader" /\ ret.on = "Image")
       => /\ ret.exc = ""
          /\ image.reader # NoReader
          /\ ret.val = <<image.reader.id>>
    /\ (ret.on = "Image" /\ ret.op \in GeometryProps
        /\ image.reader.cls \in {None, "ImageReaderAdaptive"}
        /\ isfile(image.filepath))
       => ret.exc = "" /\ image.reader.cls = "ImageReaderAdaptive"
    /\ (ret.on = "Image" /\ ret.op \in GeometryProps
        /\ image.reader.cls \in {None, "ImageReaderDirectory"}
        /\ isdir(image.filepath))
       => /\ ret.exc = "NotImplementedError"
          /\ image.reader.cls = "ImageReaderDirectory"

\* the number of regions of the facade's reader at the default tile size
FacadeCount == ReaderNumberOfRegions(image.reader, DEFAULT_REGION_DIMS)

\* every region served since __iter__ came from the facade's current reader
SameReaderThroughout == \A k \in DOMAIN served : served[k].reader = image.reader.id

OnDirectoryReader ==
    \/ ret.on \in {"ImageReaderDirectory", "DraftDirectory"}
    \/ /\ ret.on = "Image"
       /\ \/ IsDirectoryClass(image.reader)
          \/ image.reader = NoReader /\ isdir(image.filepath)

\* the sorted paths of the files of the directory
SortedFiles == sort([i \in DOMAIN listing |-> join(DirPath, listing[i])])

\* C8 as stated: a directory reader is built over the n files of a directory;
\* number_of_regions() returns n whatever the dims, get_region(i) for
\* 0 <= i < n returns the file at position i of the sorted file list and
\* get_region(i) for an integer i < 0 or i >= n raises IndexError.
C8_Original ==
    /\ (ret.op = "__init__" /\ ret.on = "ImageReaderDirectory" /\ isdir(ret.path))
       => ret.exc = "" /\ ureader.files = SortedFiles
    /\ (ret.op = "number_of_regions" /\ OnDirectoryReader)
       => ret.exc = "" /\ ret.val = <<Len(listing)>>
    /\ (ret.op = "get_region" /\ OnDirectoryReader /\ ret.ident.t = "int")
       => IF 0 <= ret.ident.v[1] /\ ret.ident.v[1] < Len(listing)
          THEN /\ ret.exc = ""
               /\ ret.region.file = SortedFiles[ret.ident.v[1] + 1]
               /\ ret.read = <<ret.region.file>>
          ELSE ret.exc = "IndexError"

\* C9 as stated: get_region of a directory reader fails with
\* NotImplementedError for every identifier that is not an integer index, a
\* coordinate pair included, and reads no file then; the only other error is
\* IndexError.
C9_Original ==
    (ret.op = "get_region" /\ OnDirectoryReader)
    => /\ ret.ident.t # "int"
            => ret.exc = "NotImplementedError" /\ ret.read = <<>>
       /\ ret.exc \in {"", "NotImplementedError", "IndexError"}

\* the extension of the last constructor call has no registered adapter
UnregisteredExtension == FORMAT_ADAPTER_MAP(SplitExt(ret.path)) = None

\* C10 as stated: constructing a single-file reader over an existing file whose
\* extension has no registered adapter raises UnsupportedFormatException
\* carrying the extension, and creates no adapter.
C10_Original ==
    (/\ ret.op = "__init__"
     /\ ret.on \in {"ImageReader", "ImageReaderAdaptive"}
     /\ isfile(ret.path)
     /\ UnregisteredExtension)
    => /\ ret.exc = "UnsupportedFormatException"
       /\ ret.val = SplitExt(ret.path)
       /\ ret.created = 0

\* str.lower() of one character
LowerChar(c) ==
    CASE c = "F" -> "f" [] c = "I" -> "i" [] c = "T" -> "t" [] OTHER -> c

\* str.lower()
Lower(s) == [i \in DOMAIN s |-> LowerChar(s[i])]

\* C11 as stated: the format token is the text after the last '.' of the
\* filepath in lower case, so that constructing a single-file reader over an
\* existing file whose lower-cased extension is registered succeeds with the
\* adapter registered for it ('s.TIF' gets the adapter of 's.tif').
C11_Original ==
    (/\ ret.op = "__init__"
     /\ ret.on = "ImageReader"
     /\ isfile(ret.path)
     /\ FORMAT_ADAPTER_MAP(Lower(SplitExt(ret.path))) # None)
    => /\ ret.exc = ""
       /\ ureader.filepath = ret.path
       /\ ureader.adapter = FORMAT_ADAPTER_MAP(Lower(SplitExt(ret.path)))

\* the operations of the facade that go through Image.reader
ReaderAccesses == {"reader", "get_region", "number_of_regions", "width",
                   "height", "dims", "__len__", "__next__"}

\* C12 as stated: Image construction creates no reader; the first access of
\* Image.reader on a facade without a reader resolves it, creating exactly one
\* reader, which the facade keeps; every later access (reader, get_region,
\* number_of_regions, width, height, dims, len, iteration) leaves that reader
\* in place and constructs none, until the caller assigns another.
C12_Original ==
    [][/\ (ret'.op = "Image" /\ ret'.exc = "")
          => image'.reader = NoReader /\ nextId' = nextId
       /\ (ret'.on = "Image" /\ ret'.op \in ReaderAccesses)
          => IF image.reader # NoReader
             THEN /\ image'.reader = image.reader
                  /\ nextId' = nextId
                  /\ ret'.created = 0
                  /\ ret'.op = "reader"
                       => ret'.exc = "" /\ ret'.val = <<image.reader.id>>
             ELSE /\ image'.reader # NoReader
                  /\ image'.reader.id = nextId
                  /\ nextId' = nextId + 1
                  /\ ret'.op = "reader"
                       => ret'.exc = "" /\ ret'.val = <<nextId>>]_vars

\* the part of C12 that concerns a facade which has a reader: every access
\* leaves it in place and constructs none
C12_CachedOnceHeld ==
    [][(ret'.on = "Image" /\ ret'.op \in ReaderAccesses /\ image.reader # NoReader)
       => /\ image'.reader = image.reader
          /\ nextId' = nextId
          /\ ret'.created = 0
          /\ ret'.op = "reader"
               => ret'.exc = "" /\ ret'.val = <<image.reader.id>>]_vars

\* C13: image.reader = new_reader keeps new_reader when it is an ImageReader;
\* for any other value (a str, None) it raises TypeError and the facade's
\* reader, held or unset, and its cursor stay as they were.
C13_SetterTypeChecked ==
    [][(ret'.on = "Image" /\ ret'.op = "reader.setter")
       => IF ret'.ident.t \in ReaderClasses
          THEN /\ ret'.exc = ""
               /\ image'.reader.cls = ret'.ident.t
               /\ image'.reader.id = ret'.ident.v[1]
               /\ image'.filepath = image.filepath
          ELSE /\ ret'.exc = "TypeError"
               /\ image' = image]_vars

\* a str is refused by a facade that holds a reader, which it keeps
C13_Witness ==
    /\ ret.on = "Image"
    /\ ret.op = "reader.setter"
    /\ ret.ident.t = "str"
    /\ ret.exc = "TypeError"
    /\ image.reader.cls = "ImageReader"

\* C14 as stated: a with statement over an Image ends cleanly: after a body
\* that finished normally the statement raises nothing, and after a body that
\* failed the statement raises the body's error, the exit step adding none of
\* its own.
C14_Original ==
    (ret.on = "Image" /\ ret.op = "with") => ret.exc = ret.body

\* C15 as stated: __iter__ on an Image whose iterator is already initialised
\* (a traversal was started before on this facade) raises an exception and
\* starts no second traversal.
C15_Original ==
    [][(ret'.on = "Image" /\ ret'.op = "__iter__" /\ image.iter # -1)
       => /\ ret'.exc # ""
          /\ image'.iter = image.iter
          /\ served' = served]_vars

IntegralFloat(obj) ==
    obj.t = "float" /\ \E n \in -MaxDim .. MaxDim : obj.v[1] = 2 * n

\* C17: is_region_index(obj) is True exactly when obj is an int or a float
\* with an integral value (10 and 10.0 are indices, 10.1 is not).
C17_IsRegionIndex ==
    (ret.op = "is_region_index")
    => /\ ret.exc = ""
       /\ ret.val = <<1>> <=> (ret.ident.t = "int" \/ IntegralFloat(ret.ident))
       /\ ret.val # <<1>> => ret.val = <<0>>

\* the float 2.0 is an index
C17_Witness ==
    /\ ret.op = "is_region_index"
    /\ ret.ident = FloatVal(4)
    /\ ret.val = <<1>>

\* the origin of tile i of the image at the dims of the last call
TileOrigin(i) ==
    LET per_row == imgW \div ret.dims[1]
    IN <<(i % per_row) * ret.dims[1], (i \div per_row) * ret.dims[2]>>

\* the identifier of the last call is an index
IdentIsIndex == ret.ident.t = "int" \/ IntegralFloat(ret.ident)

\* the identifier of the last call is a pair of coordinates
IdentIsPair == ret.ident.t = "tuple" /\ Len(ret.ident.v) = 2

\* the part of C18 on the order of the steps of ImageReader.get_region: the
\* adapter is asked at most once, only for a rectangle of positive size that
\* lies in the image, with the coordinates the identifier stands for and the
\* caller's dims; the call returns the region the adapter gave for exactly
\* this rectangle, or raises and returns nothing.
C18_FetchAfterValidation ==
    GeomCall("get_region")
    => /\ Len(ret.fetched) <= 1
       /\ ret.fetched # <<>>
            => /\ IdentIsIndex \/ IdentIsPair
               /\ PositiveDims
               /\ ret.fetched[1].dims = ret.dims
               /\ Rect(ret.fetched[1].coords, ret.dims) \subseteq Pixels
               /\ IdentIsPair => ret.fetched[1].coords = ret.ident.v
               /\ IdentIsIndex
                    => ret.fetched[1].coords = TileOrigin(NumberOf(ret.ident))
       /\ ret.exc = ""
            => /\ ret.fetched # <<>>
               /\ ret.region = [file |-> ureader.filepath,
                                coords |-> ret.fetched[1].coords,
                                dims |-> ret.dims]
       /\ ret.exc # "" => ret.region = NoRegion

\* C18 as stated: get_region of a single-file reader resolves the identifier
\* (an index is converted to coordinates, a coordinate pair is used as it is,
\* anything else is a type error), then validates the region, then asks the
\* adapter: the adapter is asked only for rectangles that passed validation,
\* with the resolved coordinates and the caller's dims, never after a failed
\* step, and the call returns the adapter's region or raises.
C18_Original ==
    /\ C18_FetchAfterValidation
    /\ (GeomCall("get_region") /\ ~IdentIsIndex /\ ~IdentIsPair)
       => ret.exc = "TypeError" /\ ret.fetched = <<>>

\* C19: after __iter__, a __next__ call that returns a region advances the
\* cursor by exactly one, and one that fails in get_region or signals
\* StopIteration leaves it where it was; no other call but __iter__ moves it.
\* The cursor therefore equals the number of regions returned since __iter__,
\* and does not exceed number_of_regions() of the reader that served them.
C19_CursorCountsReturned ==
    /\ [](image.iter >= 0
           => /\ image.iter = Len(served)
              /\ (/\ image.reader # NoReader
                  /\ SameReaderThroughout
                  /\ FacadeCount.exc = "")
                 => image.iter <= FacadeCount.val[1])
    /\ [][/\ (ret'.on = "Image" /\ ret'.op = "__next__" /\ image.iter >= 0)
             => IF ret'.exc = ""
                THEN /\ image'.iter = image.iter + 1
                     /\ served' = Append(served, served'[Len(served')])
                ELSE /\ image'.iter = image.iter
                     /\ served' = served
          /\ ret'.op \notin {"__next__", "__iter__", "Image"}
             => image'.iter = image.iter /\ served' = served]_vars

\* a __next__ whose get_region failed after one region had been returned
C19_Witness ==
    /\ ret.on = "Image"
    /\ ret.op = "__next__"
    /\ ret.exc = "BackendFailure"
    /\ image.iter = 1
    /\ Len(served) = 1
====
